---- MODULE Spec2Model ----
(***************************************************************************)
(* Book Checklist server (Express + Mongoose): credential handling, the    *)
(* token guard and the per-user book routes.                               *)
(*                                                                         *)
(* Strings are sequences of one-character strings, so that trimming,       *)
(* lower-casing and regular-expression matching are computed.  A value     *)
(* that may be undefined is a set with at most one element: {} is          *)
(* undefined, {v} is the value v.                                          *)
(***************************************************************************)
EXTENDS Integers, Sequences, FiniteSets, TLC

VARIABLES
    users,    \* the User collection: sequence of documents, _id = position
    pending,  \* registrations between `new User(...)` and the insert of save()
    books,    \* the Book collection: set of documents
    clock,    \* number of Book documents created so far (ObjectId / createdAt source)
    createdBy,\* history: for each Book _id ever created, the user whose add created it
    inflight, \* per client, its add request: idle, past the findOne, or answered
    before,   \* the Book collection as it was when the last request arrived
    last      \* the last request answered and its response

vars == <<users, pending, books, clock, createdBy, inflight, before, last>>

---------------------------------------------------------------------------
(* Bounds of the model *)

MaxBooks == 2      \* Book documents ever created
MaxUsers == 3      \* User documents ever inserted
MaxClients == 2    \* registrations in flight at the same time
MaxQueryLen == 2   \* characters in a search query

---------------------------------------------------------------------------
(* Optional values and strings *)

Undefined == {}
Some(v) == {v}
Has(m) == m # {}
Val(m) == CHOOSE v \in m : TRUE

Str1(a) == <<a>>
Str2(a, b) == <<a, b>>

\* String.prototype.toLowerCase on the characters the model uses
LowerChar(c) ==
    CASE c = "A" -> "a"
      [] c = "B" -> "b"
      [] OTHER -> c

ToLowerCase(s) == [i \in 1..Len(s) |-> LowerChar(s[i])]

RECURSIVE TrimStart(_)
TrimStart(s) ==
    IF s # <<>> /\ Head(s) = " " THEN TrimStart(Tail(s)) ELSE s

RECURSIVE TrimEnd(_)
TrimEnd(s) ==
    IF s # <<>> /\ s[Len(s)] = " " THEN TrimEnd(SubSeq(s, 1, Len(s) - 1)) ELSE s

\* String.prototype.trim
Trim(s) == TrimEnd(TrimStart(s))

---------------------------------------------------------------------------
(* User schema *)

\* UserSchema.email: { trim: true, lowercase: true }, the setters of the path
NormalizeEmail(e) == ToLowerCase(Trim(e))

SaltRounds == 10
MinPasswordLength == 6

\* bcrypt.hash(password, 10): one-way; the model keeps the preimage inside
\* the hash value only so that bcrypt.compare can be computed
BcryptHash(pw) == [alg |-> "bcrypt", rounds |-> SaltRounds, of |-> pw]

\* UserSchema.methods.comparePassword -> bcrypt.compare(candidate, hash).
\* bcryptjs rejects with "Illegal arguments" when the candidate is not a
\* string; otherwise it resolves to whether the candidate hashes to `hash`.
ComparePassword(candidate, hash) ==
    IF ~Has(candidate) THEN "throw"
    ELSE IF Val(candidate) = hash.of THEN "match" ELSE "mismatch"

\* positions of the User documents with the given stored email
UsersWithEmail(us, e) == {i \in 1..Len(us) : us[i].email = e}

\* UserSchema.email: { unique: true }: the unique index refuses an insert
\* whose email is already stored (MongoDB error code 11000)
DuplicateKeyNever(us, e) == FALSE
DuplicateKey(us, e) == UsersWithEmail(us, e) # {}

\* User.findOne({ email }): the schema's setters run on the query value
FindUserByEmail(us, email) ==
    IF ~Has(email) THEN {}
    ELSE UsersWithEmail(us, NormalizeEmail(Val(email)))

---------------------------------------------------------------------------
(* Tokens *)

JwtSecret == "JWT_SECRET"
ExpiresInDays == 7

\* jwt.sign({ id, email }, JWT_SECRET, { expiresIn: '7d' }) at day `iat`
JwtSign(id, email, iat) ==
    [id |-> id, email |-> email, exp |-> iat + ExpiresInDays, sig |-> JwtSecret]

\* one space-separated part of an Authorization header value: its text, and
\* the token it decodes to when it is a JSON Web Token
Part(text) == [text |-> text, jwt |-> Undefined]
JwtPart(tok) == [text |-> "jwt", jwt |-> Some(tok)]

\* authenticateToken: `authHeader && authHeader.split(' ')[1]`.  A header
\* value is the sequence of its parts; the empty string is <<Part("")>> and
\* is falsy, so `&&` yields the empty string itself.
BearerToken(hdr) ==
    IF ~Has(hdr) THEN Undefined
    ELSE IF Val(hdr) = <<Part("")>> THEN Some(Part(""))
    ELSE IF Len(Val(hdr)) >= 2 THEN Some(Val(hdr)[2])
    ELSE Undefined

\* jwt.verify(token, JWT_SECRET, cb) on day `day`: the decoded payload, or
\* Undefined when it calls back with an error
JwtVerifyNoExpiry(part, day) ==
    IF ~Has(part.jwt) THEN Undefined
    ELSE LET t == Val(part.jwt)
         IN IF t.sig # JwtSecret THEN Undefined
            ELSE Some([id |-> t.id, email |-> t.email])
JwtVerify(part, day) ==
    IF ~Has(part.jwt) THEN Undefined
    ELSE LET t == Val(part.jwt)
         IN IF t.sig # JwtSecret THEN Undefined
            ELSE IF day >= t.exp THEN Undefined
            ELSE Some([id |-> t.id, email |-> t.email])

\* authenticateToken: status 0 stands for next()
AuthenticateToken(hdr, day) ==
    LET token == BearerToken(hdr)
    IN IF ~Has(token) THEN [status |-> 401, user |-> Undefined]
       ELSE LET decoded == JwtVerify(Val(token), day)
            IN IF ~Has(decoded) THEN [status |-> 403, user |-> Undefined]
               ELSE [status |-> 0, user |-> decoded]

---------------------------------------------------------------------------
(* Requests and responses *)

NoBody == [title |-> Undefined, author |-> Undefined, isbn |-> Undefined,
           user |-> Undefined]

\* the record kept of a request and of its response
NoRequest ==
    [route |-> "none", hdr |-> Undefined, day |-> 0, id |-> Undefined,
     body |-> NoBody, query |-> Undefined, email |-> Undefined,
     password |-> Undefined, ran |-> FALSE, user |-> Undefined,
     status |-> 0, message |-> "", result |-> <<>>, token |-> Undefined]

Respond(req, status, message) ==
    [req EXCEPT !.status = status, !.message = message]

\* an add request of a client: pc is "idle", "checked" (findOne resolved
\* with null, save() not yet called) or "answered" (with the status sent)
Idle == [pc |-> "idle", user |-> Undefined, body |-> NoBody, status |-> 0]

---------------------------------------------------------------------------
(* Inputs of the credential routes *)

PwGood == <<"s", "e", "c", "r", "e", "t">>
PwOther == <<"h", "u", "n", "t", "e", "r">>
PwShort == <<"s", "e", "c", "r", "e">>

Passwords == {Undefined, Some(PwShort), Some(PwGood), Some(PwOther)}

Emails ==
    {Undefined, Some(Str1(" ")), Some(Str1("a")), Some(Str2(" ", "A")),
     Some(Str1("b"))}

Clients == 1..MaxClients

---------------------------------------------------------------------------
(* POST /api/register *)

\* the checks made before anything is stored
RegisterInvalid(email, password) ==
    \/ ~Has(email) \/ Val(email) = <<>>
    \/ ~Has(password) \/ Val(password) = <<>>
    \/ Len(Val(password)) < MinPasswordLength

\* the handler up to `new User({ email, password })`; save() is pending
RegisterBegin(c, email, password) ==
    /\ ~Has(pending[c])
    /\ IF RegisterInvalid(email, password)
       THEN /\ last' = Respond([NoRequest EXCEPT !.route = "register",
                                    !.email = email, !.password = password],
                  400, "Invalid email or password (must be at least 6 characters).")
            /\ UNCHANGED pending
       ELSE /\ pending' = [pending EXCEPT ![c] =
                  Some([email |-> NormalizeEmail(Val(email)),
                        password |-> Val(password)])]
            /\ UNCHANGED last
    /\ UNCHANGED <<users, books, clock, createdBy, inflight, before>>

\* newUser.save(): validation, the pre('save') hash, then the insert
RegisterSave(c) ==
    /\ Has(pending[c])
    /\ LET doc == Val(pending[c])
           \* a saved registration is recorded by the document it built
           req == [NoRequest EXCEPT !.route = "register", !.email = Some(doc.email),
                                    !.password = Some(doc.password)]
       IN IF doc.email = <<>>
          THEN \* required: true fails on the trimmed empty string
               /\ last' = Respond(req, 500, "Server error during registration.")
               /\ UNCHANGED users
          ELSE IF DuplicateKey(users, doc.email)
          THEN /\ last' = Respond(req, 409, "Email already exists.")
               /\ UNCHANGED users
          ELSE /\ Len(users) < MaxUsers
               /\ users' = Append(users, [email |-> doc.email,
                                          password |-> BcryptHash(doc.password)])
               /\ last' = Respond(req, 201, "User created successfully.")
    /\ pending' = [pending EXCEPT ![c] = Undefined]
    /\ UNCHANGED <<books, clock, createdBy, inflight, before>>

---------------------------------------------------------------------------
(* POST /api/login *)

LoginResponse(us, email, password) ==
    LET found == FindUserByEmail(us, email)
        u == CHOOSE i \in found : \A j \in found : i <= j
        cmp == ComparePassword(password, us[u].password)
        ok == [status |-> 200, message |-> "", token |-> Undefined]
    IN IF found = {}
       THEN [ok EXCEPT !.status = 401, !.message = "Invalid credentials."]
       ELSE IF cmp = "throw"
       THEN [ok EXCEPT !.status = 500, !.message = "Server error during login."]
       ELSE IF cmp = "mismatch"
       THEN [ok EXCEPT !.status = 401, !.message = "Invalid credentials."]
       ELSE [ok EXCEPT !.token = Some(JwtSign(u, us[u].email, 0))]

Login(email, password) ==
    /\ LET req == [NoRequest EXCEPT !.route = "login", !.email = email,
                                    !.password = password]
           res == LoginResponse(users, email, password)
       IN last' = [Respond(req, res.status, res.message) EXCEPT !.token = res.token]
    /\ UNCHANGED <<users, pending, books, clock, createdBy, inflight, before>>

---------------------------------------------------------------------------
(* The credential routes, with registrations that may interleave *)

InitAuth ==
    /\ users = <<>>
    /\ pending = [c \in Clients |-> Undefined]
    /\ books = {}
    /\ clock = 0
    /\ createdBy = <<>>
    /\ inflight = [c \in Clients |-> Idle]
    /\ before = {}
    /\ last = NoRequest

NextAuth ==
    \/ \E c \in Clients, e \in Emails, p \in Passwords : RegisterBegin(c, e, p)
    \/ \E c \in Clients : RegisterSave(c)
    \/ \E e \in Emails, p \in Passwords : Login(e, p)

SpecAuth == InitAuth /\ [][NextAuth]_vars

---------------------------------------------------------------------------
(* Book schema and the queries the book routes make *)

\* JavaScript `!x` for a value that is undefined or a string
Falsy(m) == ~Has(m) \/ Val(m) = <<>>

\* Book.findOne({ isbn, user: req.user.id }): the documents the filter matches
ExistingBookAnyUser(bs, isbn, user) == {b \in bs : b.isbn = isbn}
ExistingBook(bs, isbn, user) == {b \in bs : b.isbn = isbn /\ b.user = user}

\* new Book({ ...req.body, user: req.user.id }) saved as the id-th document:
\* the caller's id overrides a `user` of the body; createdAt is the save time,
\* later for each later add (requests run one after the other); updatedAt
\* and the optional paths are read by no route and are left out
NewBook(body, user, id) ==
    [_id |-> id, user |-> user, title |-> Val(body.title),
     author |-> Val(body.author), isbn |-> Val(body.isbn), createdAt |-> id]

\* req.params.id: a 24-digit hexadecimal string casts to the ObjectId n, any
\* other string makes the query throw a CastError
ObjectId(n) == [hex |-> TRUE, n |-> n]
MalformedId == [hex |-> FALSE, n |-> 0]

\* the filter { _id: req.params.id, user: req.user.id }
MatchBook(bs, id, user) == {b \in bs : b._id = id.n /\ b.user = user}

\* findOneAndUpdate(filter, req.body): every schema path present in the body
\* is $set; validators do not run on updates
ApplyUpdate(b, body) ==
    [b EXCEPT !.title = IF Has(body.title) THEN Val(body.title) ELSE @,
              !.author = IF Has(body.author) THEN Val(body.author) ELSE @,
              !.isbn = IF Has(body.isbn) THEN Val(body.isbn) ELSE @,
              !.user = IF Has(body.user) THEN Val(body.user) ELSE @]

\* .sort({ createdAt: -1 })
RECURSIVE SortNewestFirst(_)
SortNewestFirst(S) ==
    IF S = {} THEN <<>>
    ELSE LET m == CHOOSE b \in S : \A c \in S : c.createdAt <= b.createdAt
         IN <<m>> \o SortNewestFirst(S \ {m})

\* an unsorted find(): natural (insertion) order
RECURSIVE NaturalOrder(_)
NaturalOrder(S) ==
    IF S = {} THEN <<>>
    ELSE LET m == CHOOSE b \in S : \A c \in S : b._id <= c._id
         IN <<m>> \o NaturalOrder(S \ {m})

\* new RegExp(query, 'i') over the characters of the model: "(" opens a
\* group that nothing closes, which is a SyntaxError
RegExpThrows(q) == \E i \in 1..Len(q) : q[i] = "("

\* one pattern character against one character: "." matches any character,
\* any other character matches itself, ignoring case
PatternCharMatches(p, c) == p = "." \/ LowerChar(p) = LowerChar(c)

\* { field: searchRegex }: the pattern matches somewhere in the string
RegExpTest(q, str) ==
    \E k \in 0..(Len(str) - Len(q)) :
        \A i \in 1..Len(q) : PatternCharMatches(q[i], str[k + i])

\* Book.find({ user, $or: [{ title }, { author }, { isbn }] })
SearchMatches(bs, user, q) ==
    {b \in bs : /\ b.user = user
                /\ \/ RegExpTest(q, b.title)
                   \/ RegExpTest(q, b.author)
                   \/ RegExpTest(q, b.isbn)}

---------------------------------------------------------------------------
(* The book routes: authenticateToken, then the handler *)

\* the request as the guard sees it
Arrival(route, hdr, day) ==
    [NoRequest EXCEPT !.route = route, !.hdr = hdr, !.day = day]

\* the request as the handler sees it: req.user is attached
Admitted(req, auth) == [req EXCEPT !.ran = TRUE, !.user = auth.user]

\* res.sendStatus(401 | 403): the handler is not called
Refuse(req, auth) ==
    /\ last' = Respond(req, auth.status, "")
    /\ UNCHANGED <<books, clock, createdBy>>

\* GET /api/books
ListBooks(hdr, day) ==
    LET auth == AuthenticateToken(hdr, day)
        req == Arrival("list", hdr, day)
    IN /\ before' = books
       /\ IF auth.status # 0 THEN Refuse(req, auth)
          ELSE LET me == Val(auth.user).id
               IN /\ last' = [Respond(Admitted(req, auth), 200, "") EXCEPT
                        !.result = SortNewestFirst({b \in books : b.user = me})]
                  /\ UNCHANGED <<books, clock, createdBy>>
       /\ UNCHANGED <<users, pending, inflight>>

\* POST /api/books
AddBook(hdr, day, body) ==
    LET auth == AuthenticateToken(hdr, day)
        req == Arrival("add", hdr, day)
    IN /\ before' = books
       /\ IF auth.status # 0 THEN Refuse(req, auth)
          ELSE LET me == Val(auth.user).id
                   r == [Admitted(req, auth) EXCEPT !.body = body]
               IN IF Falsy(body.title) \/ Falsy(body.author) \/ Falsy(body.isbn)
                  THEN /\ last' = Respond(r, 400, "Title, Author, and ISBN are required.")
                       /\ UNCHANGED <<books, clock, createdBy>>
                  ELSE IF ExistingBook(books, Val(body.isbn), me) # {}
                  THEN /\ \E b \in ExistingBook(books, Val(body.isbn), me) :
                            last' = [Respond(r, 409, "You already own this book.")
                                        EXCEPT !.result = <<b>>]
                       /\ UNCHANGED <<books, clock, createdBy>>
                  ELSE LET newBook == NewBook(body, me, clock + 1)
                       IN /\ clock < MaxBooks
                          /\ books' = books \cup {newBook}
                          /\ clock' = clock + 1
                          /\ createdBy' = Append(createdBy, me)
                          /\ last' = [Respond(r, 201, "") EXCEPT !.result = <<newBook>>]
       /\ UNCHANGED <<users, pending, inflight>>

\* PUT /api/books/:id
UpdateBook(hdr, day, id, body) ==
    LET auth == AuthenticateToken(hdr, day)
        req == [Arrival("update", hdr, day) EXCEPT !.id = Some(id)]
    IN /\ before' = books
       /\ IF auth.status # 0 THEN Refuse(req, auth)
          ELSE LET me == Val(auth.user).id
                   r == [Admitted(req, auth) EXCEPT !.body = body]
               IN IF ~id.hex
                  THEN /\ last' = Respond(r, 500, "Failed to update book.")
                       /\ UNCHANGED <<books, clock, createdBy>>
                  ELSE IF MatchBook(books, id, me) = {}
                  THEN /\ last' = Respond(r, 404,
                                     "Book not found or you do not have permission.")
                       /\ UNCHANGED <<books, clock, createdBy>>
                  ELSE LET b == CHOOSE x \in MatchBook(books, id, me) : TRUE
                           updatedBook == ApplyUpdate(b, body)
                       IN /\ books' = (books \ {b}) \cup {updatedBook}
                          /\ last' = [Respond(r, 200, "") EXCEPT !.result = <<updatedBook>>]
                          /\ UNCHANGED <<clock, createdBy>>
       /\ UNCHANGED <<users, pending, inflight>>

\* DELETE /api/books/:id
DeleteBook(hdr, day, id) ==
    LET auth == AuthenticateToken(hdr, day)
        req == [Arrival("remove", hdr, day) EXCEPT !.id = Some(id)]
    IN /\ before' = books
       /\ IF auth.status # 0 THEN Refuse(req, auth)
          ELSE LET me == Val(auth.user).id
                   r == Admitted(req, auth)
               IN IF ~id.hex
                  THEN /\ last' = Respond(r, 500, "Failed to delete book.")
                       /\ UNCHANGED <<books, clock, createdBy>>
                  ELSE IF MatchBook(books, id, me) = {}
                  THEN /\ last' = Respond(r, 404,
                                     "Book not found or you do not have permission.")
                       /\ UNCHANGED <<books, clock, createdBy>>
                  ELSE /\ books' = books \ MatchBook(books, id, me)
                       /\ last' = Respond(r, 204, "")
                       /\ UNCHANGED <<clock, createdBy>>
       /\ UNCHANGED <<users, pending, inflight>>

\* GET /api/search?query=
SearchBooks(hdr, day, query) ==
    LET auth == AuthenticateToken(hdr, day)
        req == [Arrival("search", hdr, day) EXCEPT !.query = query]
    IN /\ before' = books
       /\ IF auth.status # 0 THEN Refuse(req, auth)
          ELSE LET me == Val(auth.user).id
                   r == Admitted(req, auth)
               IN IF Falsy(query)
                  THEN last' = Respond(r, 400, "Search query is required.")
                  ELSE IF RegExpThrows(Val(query))
                  THEN last' = Respond(r, 500, "Failed to search for books.")
                  ELSE last' = [Respond(r, 200, "") EXCEPT
                           !.result = NaturalOrder(SearchMatches(books, me, Val(query)))]
       /\ UNCHANGED <<users, pending, inflight, books, clock, createdBy>>

---------------------------------------------------------------------------
(* POST /api/books as the two storage steps it awaits *)

\* BookSchema declares no unique index: an insert is never refused with a
\* duplicate key error, whatever (user, isbn) pairs are stored
BookDuplicateKeyIndexed(bs, doc) ==
    \E b \in bs : b.user = doc.user /\ b.isbn = doc.isbn
BookDuplicateKey(bs, doc) == FALSE

\* the handler up to the end of `await Book.findOne(...)`
AddBookCheck(c, hdr, day, body) ==
    LET auth == AuthenticateToken(hdr, day)
        req == Arrival("add", hdr, day)
        answered(st) == [inflight EXCEPT ![c] =
                            [pc |-> "answered", user |-> auth.user,
                             body |-> body, status |-> st]]
    IN /\ inflight[c].pc # "checked"
       /\ before' = books
       /\ IF auth.status # 0
          THEN /\ last' = Respond(req, auth.status, "")
               /\ inflight' = answered(auth.status)
          ELSE LET me == Val(auth.user).id
                   r == [Admitted(req, auth) EXCEPT !.body = body]
               IN IF Falsy(body.title) \/ Falsy(body.author) \/ Falsy(body.isbn)
                  THEN /\ last' = Respond(r, 400, "Title, Author, and ISBN are required.")
                       /\ inflight' = answered(400)
                  ELSE IF ExistingBook(books, Val(body.isbn), me) # {}
                  THEN /\ \E b \in ExistingBook(books, Val(body.isbn), me) :
                            last' = [Respond(r, 409, "You already own this book.")
                                        EXCEPT !.result = <<b>>]
                       /\ inflight' = answered(409)
                  ELSE /\ inflight' = [inflight EXCEPT ![c] =
                              [pc |-> "checked", user |-> auth.user,
                               body |-> body, status |-> 0]]
                       /\ UNCHANGED last
       /\ UNCHANGED <<users, pending, books, clock, createdBy>>

\* `await newBook.save()` and the response that follows it
AddBookSave(c) ==
    /\ inflight[c].pc = "checked"
    /\ LET me == Val(inflight[c].user).id
           body == inflight[c].body
           newBook == NewBook(body, me, clock + 1)
           r == [NoRequest EXCEPT !.route = "add", !.ran = TRUE,
                                  !.user = inflight[c].user, !.body = body]
       IN IF BookDuplicateKey(books, newBook)
          THEN /\ last' = Respond(r, 500, "Failed to add book.")
               /\ inflight' = [inflight EXCEPT ![c].pc = "answered", ![c].status = 500]
               /\ UNCHANGED <<books, clock, createdBy>>
          ELSE /\ clock < MaxBooks
               /\ books' = books \cup {newBook}
               /\ clock' = clock + 1
               /\ createdBy' = Append(createdBy, me)
               /\ last' = [Respond(r, 201, "") EXCEPT !.result = <<newBook>>]
               /\ inflight' = [inflight EXCEPT ![c].pc = "answered", ![c].status = 201]
    /\ UNCHANGED <<users, pending, before>>

---------------------------------------------------------------------------
(* Inputs of the book routes *)

\* two registered users, ids 1 and 2
RegisteredUsers ==
    <<[email |-> Str1("a"), password |-> BcryptHash(PwGood)],
      [email |-> Str1("b"), password |-> BcryptHash(PwOther)]>>

UserIds == 1..Len(RegisteredUsers)

\* the token login issued to user u on day 0
TokenOf(u) == JwtSign(u, RegisteredUsers[u].email, 0)

Bearer(u) == Some(<<Part("Bearer"), JwtPart(TokenOf(u))>>)

\* headers the guard lets through on day 0
ValidHeaders == {Bearer(u) : u \in UserIds}

\* headers that carry no usable token
BadHeaders ==
    {Undefined,                                        \* no Authorization header
     Some(<<Part("")>>),                               \* "Authorization:" with an empty value
     Some(<<Part("Bearer")>>),                         \* the scheme alone
     Some(<<Part("Bearer"), Part("abc")>>),            \* not a JWT
     Some(<<Part("Basic"), Part("abc")>>),             \* another scheme
     Some(<<Part("Bearer"), Part(""), JwtPart(TokenOf(1))>>),   \* two spaces
     Some(<<Part("Bearer"), JwtPart([TokenOf(1) EXCEPT !.sig = "forged"])>>)}

\* a request arrives with a header on a day: day 0, or the day a token
\* issued on day 0 expires
Arrivals ==
    {[hdr |-> h, day |-> 0] : h \in ValidHeaders \cup BadHeaders}
        \cup {[hdr |-> Bearer(1), day |-> ExpiresInDays]}

Title1 == Str2("a", "b")
Author1 == Str1("B")
Isbn1 == Str2("9", "7")
Isbn2 == Str2("9", "8")

GoodBody ==
    [title |-> Some(Title1), author |-> Some(Author1), isbn |-> Some(Isbn1),
     user |-> Undefined]

AddBodies ==
    {[GoodBody EXCEPT !.isbn = Some(i), !.user = u] :
        i \in {Isbn1, Isbn2}, u \in {Undefined} \cup {Some(v) : v \in UserIds}}
    \cup {[GoodBody EXCEPT ![f] = v] :
            f \in {"title", "author", "isbn"}, v \in {Undefined, Some(<<>>)}}

\* updates of the paths the uniqueness and ownership rules read
UpdateBodies ==
    {NoBody}
    \cup {[NoBody EXCEPT !.isbn = Some(v)] : v \in {Isbn1, Isbn2}}
    \cup {[NoBody EXCEPT !.user = Some(v)] : v \in UserIds}

\* updates of the required paths
FieldBodies ==
    {[NoBody EXCEPT ![f] = Some(<<>>)] : f \in {"title", "author", "isbn"}}
    \cup {[NoBody EXCEPT !.title = Some(Title1), !.author = Some(Author1)]}

IdParams == {ObjectId(n) : n \in 1..MaxBooks} \cup {MalformedId}

QueryChars == {"b", "9", ".", "("}

RECURSIVE StringsUpTo(_)
StringsUpTo(n) ==
    IF n = 0 THEN {<<>>}
    ELSE LET shorter == StringsUpTo(n - 1)
         IN shorter \cup {Append(q, c) : q \in shorter, c \in QueryChars}

Queries == {Undefined} \cup {Some(q) : q \in StringsUpTo(MaxQueryLen)}

---------------------------------------------------------------------------
(* The book routes, each request run to completion before the next *)

Init ==
    /\ users = RegisteredUsers
    /\ pending = [c \in Clients |-> Undefined]
    /\ books = {}
    /\ clock = 0
    /\ createdBy = <<>>
    /\ inflight = [c \in Clients |-> Idle]
    /\ before = {}
    /\ last = NoRequest

\* requests of authenticated users
Callers == {[hdr |-> h, day |-> 0] : h \in ValidHeaders}

Next ==
    \/ \E a \in Callers : ListBooks(a.hdr, a.day)
    \/ \E a \in Callers, body \in AddBodies : AddBook(a.hdr, a.day, body)
    \/ \E a \in Callers, id \in IdParams, body \in UpdateBodies :
           UpdateBook(a.hdr, a.day, id, body)
    \/ \E a \in Callers, id \in IdParams : DeleteBook(a.hdr, a.day, id)

Spec == Init /\ [][Next]_vars

---------------------------------------------------------------------------
(* The same routes under updates of the required paths *)

NextFields ==
    \/ \E a \in Callers, body \in AddBodies : AddBook(a.hdr, a.day, body)
    \/ \E a \in Callers, id \in IdParams, body \in FieldBodies :
           UpdateBook(a.hdr, a.day, id, body)
    \/ \E a \in Callers, id \in IdParams : DeleteBook(a.hdr, a.day, id)

SpecFields == Init /\ [][NextFields]_vars

---------------------------------------------------------------------------
(* The book routes reached with any Authorization header *)

NextGuard ==
    \/ \E a \in Arrivals : ListBooks(a.hdr, a.day)
    \/ \E a \in Arrivals : AddBook(a.hdr, a.day, GoodBody)
    \/ \E a \in Arrivals, id \in IdParams :
           UpdateBook(a.hdr, a.day, id, [NoBody EXCEPT !.isbn = Some(Isbn2)])
    \/ \E a \in Arrivals, id \in IdParams : DeleteBook(a.hdr, a.day, id)
    \/ \E a \in Arrivals : SearchBooks(a.hdr, a.day, Some(Str1("b")))

SpecGuard == Init /\ [][NextGuard]_vars

---------------------------------------------------------------------------
(* Adding and searching *)

NextSearch ==
    \/ \E a \in Callers, body \in AddBodies : AddBook(a.hdr, a.day, body)
    \/ \E a \in Callers, q \in Queries : SearchBooks(a.hdr, a.day, q)

SpecSearch == Init /\ [][NextSearch]_vars

---------------------------------------------------------------------------
(* Add requests of several clients whose storage steps interleave *)

\* the bodies of the racing adds: two isbns, and one body the check refuses
RaceBodies ==
    {[GoodBody EXCEPT !.isbn = Some(i)] : i \in {Isbn1, Isbn2}}
    \cup {[GoodBody EXCEPT !.title = Undefined]}

NextRace ==
    \/ \E c \in Clients, a \in Callers, body \in RaceBodies :
           AddBookCheck(c, a.hdr, a.day, body)
    \/ \E c \in Clients : AddBookSave(c)

SpecRace == Init /\ [][NextRace]_vars

---------------------------------------------------------------------------
(* Properties *)

BookRoutes == {"list", "add", "update", "remove", "search"}

\* the authenticated caller of the last request
Caller == Val(last.user).id

\* C1: no two stored Book records have the same (owning user, isbn) pair,
\* whatever add, update and remove requests were run one after the other.
C1_UniqueIsbnPerUser ==
    \A b1, b2 \in books : (b1.user = b2.user /\ b1.isbn = b2.isbn) => b1 = b2

\* C2: the owning user of every Book record is the user whose add created
\* it, and an add creates the record under the authenticated caller.
C2_OwnershipNeverTransfers ==
    /\ \A b \in books : b.user = createdBy[b._id]
    /\ (last.route = "add" /\ last.status = 201) => last.result[1].user = Caller

\* C3: an update or remove of an id that does not exist, or that belongs to
\* another user, is answered 404 and leaves every Book record unchanged.
C3_AbsentOrForeignIsNotFound ==
    ( /\ last.route \in {"update", "remove"}
      /\ last.ran
      /\ ~\E b \in before : /\ Val(last.id).hex
                            /\ b._id = Val(last.id).n
                            /\ b.user = Caller )
    => (last.status = 404 /\ books = before)

\* C4: a list returns exactly the records its caller created and has not
\* removed, newest-created first.
C4_ListIsOwnCreations ==
    (last.route = "list" /\ last.ran) =>
        LET own == {b \in books : createdBy[b._id] = Caller}
            res == last.result
        IN /\ {res[i] : i \in 1..Len(res)} = own
           /\ Len(res) = Cardinality(own)
           /\ \A i, j \in 1..Len(res) : i < j => res[i].createdAt > res[j].createdAt

\* C5: an add that passes the required-field check is answered 409 with a
\* record the caller already holds under that isbn, the store unchanged, when
\* the caller holds the isbn; otherwise (also when only another user holds the
\* isbn) it is answered 201 and creates one record owned by the caller.
C5_AddConflictIsPerUser ==
    ( /\ last.route = "add"
      /\ last.ran
      /\ ~Falsy(last.body.title) /\ ~Falsy(last.body.author)
      /\ ~Falsy(last.body.isbn) )
    => LET isbn == Val(last.body.isbn)
           held == {b \in before : b.user = Caller /\ b.isbn = isbn}
       IN IF held # {}
          THEN /\ last.status = 409
               /\ Len(last.result) = 1 /\ last.result[1] \in held
               /\ books = before
          ELSE /\ last.status = 201
               /\ \E n \in books \ before :
                     /\ books = before \cup {n}
                     /\ n.user = Caller /\ n.isbn = isbn
                     /\ \A b \in before : b._id # n._id
                     /\ last.result = <<n>>

\* C5 witness: the caller's add is refused with 409 while another user, who
\* added the same isbn and was answered 201, still holds a record with it.
C5_Witness ==
    /\ last.route = "add" /\ last.status = 409
    /\ \E b \in books : /\ b.user # Caller
                        /\ createdBy[b._id] = b.user
                        /\ b.isbn = Val(last.body.isbn)

\* the normal form of an email: trimmed and lower-cased
NormalForm(e) == ToLowerCase(Trim(e))

C6_Step ==
    /\ Len(users') >= Len(users)
    /\ \A i \in 1..Len(users) : users'[i] = users[i]
    /\ \A c \in Clients :
          ( /\ Has(pending[c]) /\ ~Has(pending'[c])
            /\ \E i \in 1..Len(users) :
                  NormalForm(users[i].email) = NormalForm(Val(pending[c]).email) )
          => (last'.status = 409 /\ users' = users)

\* C6: at most one User exists per normalized email in every state, also
\* when registrations interleave; a registration that passes the input check
\* and whose normalized email is already registered is answered 409; and no
\* step changes a stored User record.
C6_EmailUnique ==
    /\ [](\A i, j \in 1..Len(users) :
             NormalForm(users[i].email) = NormalForm(users[j].email) => i = j)
    /\ [][C6_Step]_vars

\* C6 witness: a registration is answered 409, the user registered under
\* that email keeps another password's hash, and a further registration of
\* the same email is in flight.
C6_Witness ==
    /\ last.route = "register" /\ last.status = 409
    /\ \E i \in 1..Len(users) :
          /\ users[i].email = NormalForm(Val(last.email))
          /\ users[i].password # BcryptHash(Val(last.password))
    /\ \E c \in Clients :
          Has(pending[c]) /\ Val(pending[c]).email = NormalForm(Val(last.email))

\* an email no user registers
UnknownEmail == Some(Str1("z"))

\* C7: a login with a registered email and a password that does not match
\* (a missing one included) is answered exactly as a login with an unknown
\* email and the same password: 401, invalid credentials.
C7_LoginIndistinguishable ==
    ( /\ last.route = "login"
      /\ Has(last.email)
      /\ \E i \in 1..Len(users) :
            /\ users[i].email = NormalForm(Val(last.email))
            /\ (~Has(last.password) \/ Val(last.password) # users[i].password.of) )
    => LET unknown == LoginResponse(users, UnknownEmail, last.password)
       IN /\ last.status = unknown.status
          /\ last.message = unknown.message
          /\ last.token = unknown.token
          /\ last.status = 401

\* the part of the header the guard takes for the token
C8_TokenPart == IF Len(Val(last.hdr)) >= 2 THEN Val(last.hdr)[2] ELSE Val(last.hdr)[1]

C8_TokenValid ==
    /\ Has(C8_TokenPart.jwt)
    /\ Val(C8_TokenPart.jwt).sig = JwtSecret
    /\ last.day < Val(C8_TokenPart.jwt).exp

\* C8 as amended: on every book route, a request with no Authorization
\* header, or whose header is one non-empty word, is answered 401; any other
\* request whose second header part (the header itself when it is empty)
\* fails verification is answered 403; in both cases the handler does not
\* run and the store is unchanged; the handler runs only with the identity
\* decoded from a valid token.
C8_GuardBeforeHandler ==
    last.route \in BookRoutes =>
        IF ~Has(last.hdr) \/ (Len(Val(last.hdr)) < 2 /\ Val(last.hdr)[1].text # "")
        THEN last.status = 401 /\ ~last.ran /\ books = before
        ELSE IF ~C8_TokenValid
        THEN last.status = 403 /\ ~last.ran /\ books = before
        ELSE /\ last.ran
             /\ last.user = Some([id |-> Val(C8_TokenPart.jwt).id,
                                  email |-> Val(C8_TokenPart.jwt).email])

\* C8 witness: a request carrying a correctly signed but expired token is
\* answered 403 without the handler running, with books in the store.
C8_Witness ==
    /\ last.route \in BookRoutes /\ last.status = 403 /\ ~last.ran
    /\ Has(last.hdr) /\ Has(C8_TokenPart.jwt)
    /\ Val(C8_TokenPart.jwt).sig = JwtSecret
    /\ last.day >= Val(C8_TokenPart.jwt).exp
    /\ books # {} /\ books = before

\* a header of the form "Bearer <non-empty token>"
C8_HasBearerToken ==
    /\ Has(last.hdr)
    /\ Len(Val(last.hdr)) >= 2
    /\ Val(last.hdr)[1].text = "Bearer"
    /\ Val(last.hdr)[2].text # ""

\* C8: on every book route a request with no bearer token is answered 401,
\* one whose bearer token fails verification 403, in both cases without the
\* handler running or the store changing; the handler runs only with the
\* identity decoded from a valid token.
C8_NoBearerIs401 ==
    last.route \in BookRoutes =>
        IF ~C8_HasBearerToken
        THEN last.status = 401 /\ ~last.ran /\ books = before
        ELSE IF ~C8_TokenValid
        THEN last.status = 403 /\ ~last.ran /\ books = before
        ELSE last.ran

\* q occurs in str as a literal substring, ignoring case
LiteralContains(q, str) ==
    \E k \in 0..(Len(str) - Len(q)) :
        \A i \in 1..Len(q) : LowerChar(q[i]) = LowerChar(str[k + i])

\* C9: a search with a non-empty query is answered with exactly the caller's
\* books whose title, author or isbn contains the query as a literal
\* substring, ignoring case (an empty result when none does).
C9_SearchIsLiteralSubstring ==
    (last.route = "search" /\ last.ran /\ ~Falsy(last.query)) =>
        /\ last.status = 200
        /\ {last.result[i] : i \in 1..Len(last.result)} =
              {b \in books : /\ b.user = Caller
                             /\ \/ LiteralContains(Val(last.query), b.title)
                                \/ LiteralContains(Val(last.query), b.author)
                                \/ LiteralContains(Val(last.query), b.isbn)}

\* C10: every stored Book record has a non-empty title, author and isbn, and
\* an add that misses one of them is answered 400 and creates nothing.
C10_RequiredFieldsNonEmpty ==
    /\ \A b \in books : b.title # <<>> /\ b.author # <<>> /\ b.isbn # <<>>
    /\ ( /\ last.route = "add" /\ last.ran
         /\ (Falsy(last.body.title) \/ Falsy(last.body.author) \/ Falsy(last.body.isbn)) )
       => (last.status = 400 /\ books = before)

\* the records of bs that the add request of client c would duplicate
C11_Held(bs, c) ==
    {b \in bs : /\ b.user = Val(inflight[c].user).id
                /\ b.isbn = Val(inflight[c].body.isbn)}

C11_Step ==
    \A c \in Clients :
        /\ (inflight[c].pc # "checked" /\ inflight'[c].pc = "checked")
           => {b \in books : /\ b.user = Val(inflight'[c].user).id
                             /\ b.isbn = Val(inflight'[c].body.isbn)} = {}
        /\ (inflight[c].pc = "checked" /\ inflight'[c].pc # "checked")
           => /\ inflight'[c].status = 201
              /\ last'.status = 201
              /\ \E n \in books' \ books :
                    /\ books' = books \cup {n}
                    /\ n.user = Val(inflight[c].user).id
                    /\ n.isbn = Val(inflight[c].body.isbn)

\* C11: the isbn check and the insert of an add are two storage steps and
\* the store refuses no insert: a request enters the insert step only if the
\* store held no record with its (user, isbn) when it was checked, and its
\* insert then always stores a new record and is answered 201, whatever
\* records with the same (user, isbn) were stored in between.
C11_CheckThenInsert == [][C11_Step]_vars

\* C11 witness: two add requests of the same user with the same isbn were
\* both answered 201 and the store holds two records with that (user, isbn).
C11_Witness ==
    \E c1, c2 \in Clients :
        /\ c1 # c2
        /\ inflight[c1].pc = "answered" /\ inflight[c1].status = 201
        /\ inflight[c2].pc = "answered" /\ inflight[c2].status = 201
        /\ inflight[c1].user = inflight[c2].user
        /\ inflight[c1].body.isbn = inflight[c2].body.isbn
        /\ Cardinality(C11_Held(books, c1)) = 2

====
